---- MODULE Spec2Model ----
(***************************************************************************)
(* Token-bucket rate limiter of src/src/lib.rs (TokenBucket / RateLimit).  *)
(*                                                                         *)
(* Time is counted in clock units; Sec clock units make one second, so a   *)
(* Duration or an Instant is an integer number of clock units.  The bucket *)
(* is built once by new(), then any number of callers run available, take, *)
(* take_available and try_take.  Each of these locks mu, recomputes and    *)
(* decides while holding it, unlocks, and (take, try_take) sleeps out the  *)
(* wait it was given with the lock released.                               *)
(***************************************************************************)
EXTENDS Integers, FiniteSets, Sequences, TLC

\* ---- bounds of the model ----
Sec == 2              \* clock units per second
MaxTime == 4          \* the clock stops here
MaxCapacity == 2      \* new() is tried with capacity in 0..MaxCapacity
MaxQuantum == 2       \* new() is tried with quantum in 0..MaxQuantum
MaxInterval == 4      \* new() is tried with fill_interval in 0..MaxInterval
MaxCount == 3         \* requests ask for 0..MaxCount tokens

Callers == {"A", "B"}

\* Duration::MAX: larger than every duration the model can produce
INFINITY_DURATION == 2^20
\* max_wait values offered to try_take: zero and one second
MaxWaits == {0, Sec}

\* 2^64 of the u64 casts, scaled to fit 32-bit integers; every token count of
\* the model is far below it
U64 == 2^30

VARIABLES
    phase,             \* "none": before new(); "ok": bucket built; "panicked"
    capacity, quantum, fill_interval, create_time,
    available_tokens, last_tick,
    mu,                \* holder of the mutex, or "free"
    now,               \* the monotonic clock, Instant::now()
    pc,                \* per caller: "idle", "cs" (holds mu), "sleeping"
    op, count,         \* per sleeping caller: the call it is in
    wake,              \* per sleeping caller: instant at which its sleep ends
    ev,                \* what the last step did to a call: NoEvent, or the
                       \* call (op, count, max_wait) with kind
                       \*   "accepted": Ok(wait) from inner_take, the caller
                       \*       starts sleep(wait);
                       \*   "returned": the call returned in this step, with
                       \*       got (available, take_available) or with false
                       \*       (take, try_take);
                       \*   "woke": the sleep of a take / try_take is over
                       \*       and the call returns true (ok)
    handed,            \* history: tokens handed out by calls that returned
    drawn              \* history: some take/try_take/take_available was called

vars == <<phase, capacity, quantum, fill_interval, create_time,
          available_tokens, last_tick, mu, now, pc, op, count, wake, ev,
          handed, drawn>>

bucket == <<capacity, quantum, fill_interval, create_time>>
locals == <<op, count, wake>>

Min(a, b) == IF a <= b THEN a ELSE b

\* x as u64, for an i64 x
AsU64(x) == IF x < 0 THEN U64 + x ELSE x

\* Duration::as_secs
as_secs(d) == d \div Sec

\* Instant - Instant: saturates at zero
InstantSub(a, b) == IF a >= b THEN a - b ELSE 0

\* current_tick cut down to a narrower integer (one bit here, for the u32 of
\* the source)
current_tick_truncated(nw) ==
    LET sub == nw - create_time
        b == sub \div as_secs(fill_interval)
    IN  as_secs(b) % 2

\* TokenBucket::current_tick
current_tick(nw) ==
    LET sub == nw - create_time
        b == sub \div as_secs(fill_interval)
    IN  as_secs(b)

\* adjust_available_tokens that compares the signed balance with capacity, so
\* that a debt is overwritten like any other balance
adjust_signed(avail, lt, tick) ==
    IF avail >= capacity
    THEN avail
    ELSE Min(capacity, (tick - lt) * quantum)

\* adjust_available_tokens without the clamp to capacity
adjust_unclamped(avail, lt, tick) ==
    IF AsU64(avail) >= capacity
    THEN avail
    ELSE (tick - lt) * quantum

\* adjust_available_tokens that adds the accrued tokens to the balance instead
\* of overwriting it
adjust_additive(avail, lt, tick) ==
    IF AsU64(avail) >= capacity
    THEN avail
    ELSE Min(capacity, avail + (tick - lt) * quantum)

\* TokenBucket::adjust_available_tokens: the new available_tokens
\* (last_tick becomes tick in every case)
adjust_available_tokens(avail, lt, tick) ==
    IF AsU64(avail) >= capacity
    THEN avail
    ELSE Min(capacity, (tick - lt) * quantum)

\* inner_take that recomputes before it looks at count > capacity
inner_take_adjust_first(cnt, nw, mw) ==
    LET tick == current_tick(nw)
        adj == adjust_available_tokens(available_tokens, last_tick, tick)
        new_available == adj - cnt
    IN  IF cnt <= 0
        THEN [ok |-> TRUE, wait |-> 0, avail |-> available_tokens,
              lt |-> last_tick]
        ELSE IF cnt > capacity
        THEN [ok |-> FALSE, wait |-> 0, avail |-> adj, lt |-> tick]
        ELSE IF new_available > 0
        THEN [ok |-> TRUE, wait |-> 0, avail |-> new_available, lt |-> tick]
        ELSE
          LET end_tick == (0 - new_available + quantum - 1) \div quantum
              expected_end_time == create_time + fill_interval * end_tick
              wait_time == InstantSub(expected_end_time, nw)
          IN  IF wait_time <= mw
              THEN [ok |-> TRUE, wait |-> wait_time,
                    avail |-> new_available, lt |-> tick]
              ELSE [ok |-> FALSE, wait |-> 0, avail |-> adj, lt |-> tick]

\* inner_take that debits before it compares the wait with max_wait
inner_take_debit_first(cnt, nw, mw) ==
    IF cnt <= 0
    THEN [ok |-> TRUE, wait |-> 0, avail |-> available_tokens, lt |-> last_tick]
    ELSE IF cnt > capacity
    THEN [ok |-> FALSE, wait |-> 0, avail |-> available_tokens, lt |-> last_tick]
    ELSE
      LET tick == current_tick(nw)
          adj == adjust_available_tokens(available_tokens, last_tick, tick)
          new_available == adj - cnt
      IN  IF new_available > 0
          THEN [ok |-> TRUE, wait |-> 0, avail |-> new_available, lt |-> tick]
          ELSE
            LET end_tick == (0 - new_available + quantum - 1) \div quantum
                expected_end_time == create_time + fill_interval * end_tick
                wait_time == InstantSub(expected_end_time, nw)
            IN  IF wait_time <= mw
                THEN [ok |-> TRUE, wait |-> wait_time,
                      avail |-> new_available, lt |-> tick]
                ELSE [ok |-> FALSE, wait |-> 0, avail |-> new_available,
                      lt |-> tick]

\* inner_take with the comparison of the wait turned round
inner_take_flipped(cnt, nw, mw) ==
    IF cnt <= 0
    THEN [ok |-> TRUE, wait |-> 0, avail |-> available_tokens, lt |-> last_tick]
    ELSE IF cnt > capacity
    THEN [ok |-> FALSE, wait |-> 0, avail |-> available_tokens, lt |-> last_tick]
    ELSE
      LET tick == current_tick(nw)
          adj == adjust_available_tokens(available_tokens, last_tick, tick)
          new_available == adj - cnt
      IN  IF new_available > 0
          THEN [ok |-> TRUE, wait |-> 0, avail |-> new_available, lt |-> tick]
          ELSE
            LET end_tick == (0 - new_available + quantum - 1) \div quantum
                expected_end_time == create_time + fill_interval * end_tick
                wait_time == InstantSub(expected_end_time, nw)
            IN  IF wait_time >= mw
                THEN [ok |-> TRUE, wait |-> wait_time,
                      avail |-> new_available, lt |-> tick]
                ELSE [ok |-> FALSE, wait |-> 0, avail |-> adj, lt |-> tick]

\* inner_take that accepts every wait, whatever max_wait is
inner_take_any_wait(cnt, nw, mw) ==
    IF cnt <= 0
    THEN [ok |-> TRUE, wait |-> 0, avail |-> available_tokens, lt |-> last_tick]
    ELSE IF cnt > capacity
    THEN [ok |-> FALSE, wait |-> 0, avail |-> available_tokens, lt |-> last_tick]
    ELSE
      LET tick == current_tick(nw)
          adj == adjust_available_tokens(available_tokens, last_tick, tick)
          new_available == adj - cnt
      IN  IF new_available > 0
          THEN [ok |-> TRUE, wait |-> 0, avail |-> new_available, lt |-> tick]
          ELSE
            LET end_tick == (0 - new_available + quantum - 1) \div quantum
                expected_end_time == create_time + fill_interval * end_tick
                wait_time == InstantSub(expected_end_time, nw)
            IN  [ok |-> TRUE, wait |-> wait_time, avail |-> new_available,
                 lt |-> tick]

\* inner_take that recomputes before it looks at count <= 0
inner_take_zero_recomputes(cnt, nw, mw) ==
    LET tick == current_tick(nw)
        adj == adjust_available_tokens(available_tokens, last_tick, tick)
        new_available == adj - cnt
    IN  IF cnt <= 0
        THEN [ok |-> TRUE, wait |-> 0, avail |-> adj, lt |-> tick]
        ELSE IF cnt > capacity
        THEN [ok |-> FALSE, wait |-> 0, avail |-> available_tokens,
              lt |-> last_tick]
        ELSE IF new_available > 0
        THEN [ok |-> TRUE, wait |-> 0, avail |-> new_available, lt |-> tick]
        ELSE
          LET end_tick == (0 - new_available + quantum - 1) \div quantum
              expected_end_time == create_time + fill_interval * end_tick
              wait_time == InstantSub(expected_end_time, nw)
          IN  IF wait_time <= mw
              THEN [ok |-> TRUE, wait |-> wait_time,
                    avail |-> new_available, lt |-> tick]
              ELSE [ok |-> FALSE, wait |-> 0, avail |-> adj, lt |-> tick]

\* TokenBucket::inner_take: the result, the wait and the bucket afterwards
inner_take(cnt, nw, mw) ==
    IF cnt <= 0
    THEN [ok |-> TRUE, wait |-> 0, avail |-> available_tokens, lt |-> last_tick]
    ELSE IF cnt > capacity
    THEN [ok |-> FALSE, wait |-> 0, avail |-> available_tokens, lt |-> last_tick]
    ELSE
      LET tick == current_tick(nw)
          adj == adjust_available_tokens(available_tokens, last_tick, tick)
          new_available == adj - cnt
      IN  IF new_available > 0
          THEN [ok |-> TRUE, wait |-> 0, avail |-> new_available, lt |-> tick]
          ELSE
            LET end_tick == (0 - new_available + quantum - 1) \div quantum
                expected_end_time == create_time + fill_interval * end_tick
                wait_time == InstantSub(expected_end_time, nw)
            IN  IF wait_time <= mw
                THEN [ok |-> TRUE, wait |-> wait_time,
                      avail |-> new_available, lt |-> tick]
                ELSE [ok |-> FALSE, wait |-> 0, avail |-> adj, lt |-> tick]

\* take_available that hands out count and keeps the rest
take_available_count(cnt, nw) ==
    LET tick == current_tick(nw)
        adj == adjust_available_tokens(available_tokens, last_tick, tick)
    IN  IF adj >= cnt
        THEN [got |-> cnt, avail |-> adj - cnt, lt |-> tick]
        ELSE [got |-> 0, avail |-> adj, lt |-> tick]

\* the locked part of TokenBucket::take_available: result and bucket afterwards
take_available(cnt, nw) ==
    LET tick == current_tick(nw)
        adj == adjust_available_tokens(available_tokens, last_tick, tick)
    IN  IF adj >= cnt
        THEN [got |-> AsU64(adj), avail |-> 0, lt |-> tick]
        ELSE [got |-> 0, avail |-> adj, lt |-> tick]

\* the locked part of TokenBucket::available
available(nw) ==
    LET tick == current_tick(nw)
        adj == adjust_available_tokens(available_tokens, last_tick, tick)
    IN  [got |-> AsU64(adj), avail |-> adj, lt |-> tick]

\* ---- the state after nothing has happened yet ----
NoEvent == [kind |-> "none", op |-> "none", count |-> 0, max_wait |-> 0,
            ok |-> FALSE, got |-> 0, wait |-> 0]

Init ==
    /\ phase = "none"
    /\ capacity = 0 /\ quantum = 0 /\ fill_interval = 0 /\ create_time = 0
    /\ available_tokens = 0 /\ last_tick = 0
    /\ mu = "free"
    /\ now = 0
    /\ pc = [c \in Callers |-> "idle"]
    /\ op = [c \in Callers |-> "none"]
    /\ count = [c \in Callers |-> 0]
    /\ wake = [c \in Callers |-> 0]
    /\ ev = NoEvent
    /\ handed = 0
    /\ drawn = FALSE

\* new that only refuses a zero fill_interval
New_nonzero_interval(cap, q, fi) ==
    /\ phase = "none"
    /\ IF cap <= 0 \/ q <= 0 \/ fi <= 0
       THEN /\ phase' = "panicked"
            /\ UNCHANGED <<capacity, quantum, fill_interval, create_time,
                           available_tokens, last_tick>>
       ELSE /\ phase' = "ok"
            /\ capacity' = cap
            /\ quantum' = q
            /\ fill_interval' = fi
            /\ create_time' = now
            /\ available_tokens' = 0
            /\ last_tick' = 0
    /\ UNCHANGED <<mu, now, pc, op, count, wake, ev, handed, drawn>>

\* TokenBucket::new
New(cap, q, fi) ==
    /\ phase = "none"
    /\ IF cap <= 0 \/ q <= 0 \/ fi < Sec
       THEN /\ phase' = "panicked"
            /\ UNCHANGED <<bucket, available_tokens, last_tick>>
       ELSE /\ phase' = "ok"
            /\ capacity' = cap
            /\ quantum' = q
            /\ fill_interval' = fi
            /\ create_time' = now
            /\ available_tokens' = 0
            /\ last_tick' = 0
    /\ UNCHANGED <<mu, now, pc, locals, ev, handed, drawn>>

\* the clock advances; sleep(wait_time) ends when wait_time has elapsed, so
\* the clock does not pass the end of a sleep before the sleeper has returned
Tick ==
    /\ phase = "ok"
    /\ now < MaxTime
    /\ \A c \in Callers : pc[c] = "sleeping" => wake[c] > now
    /\ now' = now + 1
    /\ ev' = NoEvent
    /\ UNCHANGED <<phase, bucket, available_tokens, last_tick, mu, pc, locals,
                   handed, drawn>>

\* the instant at which the wait of a request of cnt tokens ends at the latest
WorstEnd(cnt) ==
    LET debt == cnt - Min(available_tokens, 0)
    IN  create_time + fill_interval * ((debt + quantum - 1) \div quantum)

\* the caller is back in its idle state
Idle(c) ==
    /\ pc' = [pc EXCEPT ![c] = "idle"]
    /\ op' = [op EXCEPT ![c] = "none"]
    /\ count' = [count EXCEPT ![c] = 0]
    /\ wake' = [wake EXCEPT ![c] = 0]

\* mu.lock() at the head of available, take, take_available (count > 0) and
\* try_take
Lock(c) ==
    /\ phase = "ok"
    /\ pc[c] = "idle"
    /\ mu = "free"
    /\ mu' = c
    /\ pc' = [pc EXCEPT ![c] = "cs"]
    /\ ev' = NoEvent
    /\ UNCHANGED <<phase, bucket, available_tokens, last_tick, now, locals,
                   handed, drawn>>

\* take_available(0): returns 0 before the lock is taken
TakeAvailableZero(c) ==
    /\ phase = "ok"
    /\ pc[c] = "idle"
    /\ ev' = [NoEvent EXCEPT !.kind = "returned", !.op = "take_available"]
    /\ drawn' = TRUE
    /\ UNCHANGED <<phase, bucket, available_tokens, last_tick, mu, now, pc,
                   locals, handed>>

\* RateLimit::available, from the lock to the return
Available(c) ==
    /\ pc[c] = "cs"
    /\ LET r == available(now)
       IN  /\ available_tokens' = r.avail
           /\ last_tick' = r.lt
           /\ ev' = [NoEvent EXCEPT !.kind = "returned", !.op = "available",
                                    !.got = r.got]
    /\ mu' = "free"
    /\ Idle(c)
    /\ UNCHANGED <<phase, bucket, now, handed, drawn>>

\* RateLimit::take_available with count > 0, from the lock to the return
TakeAvailable(c, cnt) ==
    /\ pc[c] = "cs"
    /\ cnt > 0
    /\ LET r == take_available(cnt, now)
       IN  /\ available_tokens' = r.avail
           /\ last_tick' = r.lt
           /\ ev' = [NoEvent EXCEPT !.kind = "returned",
                                    !.op = "take_available", !.count = cnt,
                                    !.got = r.got]
           /\ handed' = handed + r.got
    /\ mu' = "free"
    /\ Idle(c)
    /\ drawn' = TRUE
    /\ UNCHANGED <<phase, bucket, now>>

\* take / try_take that keep the lock while they sleep
TakeLocked_sleeps_locked(c, o, cnt, mw) ==
    /\ pc[c] = "cs"
    /\ cnt <= capacity => WorstEnd(cnt) <= MaxTime
    /\ LET r == inner_take(cnt, now, mw)
           call == [NoEvent EXCEPT !.op = o, !.count = cnt, !.max_wait = mw]
       IN  /\ available_tokens' = r.avail
           /\ last_tick' = r.lt
           /\ IF r.ok
              THEN /\ pc' = [pc EXCEPT ![c] = "sleeping"]
                   /\ op' = [op EXCEPT ![c] = o]
                   /\ count' = [count EXCEPT ![c] = cnt]
                   /\ wake' = [wake EXCEPT ![c] = now + r.wait]
                   /\ ev' = [call EXCEPT !.kind = "accepted", !.wait = r.wait]
                   /\ mu' = c
              ELSE /\ Idle(c)
                   /\ ev' = [call EXCEPT !.kind = "returned"]
                   /\ mu' = "free"
    /\ drawn' = TRUE
    /\ UNCHANGED <<phase, bucket, now, handed>>

\* take (o = "take", mw = INFINITY_DURATION) and try_take, from the lock to
\* drop(lock): on Ok the caller goes to sleep(wait_time), on Err it returns
\* false.  A request is made only if the clock of the model can outlast its
\* wait.
TakeLocked(c, o, cnt, mw) ==
    /\ pc[c] = "cs"
    /\ cnt <= capacity => WorstEnd(cnt) <= MaxTime
    /\ LET r == inner_take(cnt, now, mw)
           call == [NoEvent EXCEPT !.op = o, !.count = cnt, !.max_wait = mw]
       IN  /\ available_tokens' = r.avail
           /\ last_tick' = r.lt
           /\ IF r.ok
              THEN /\ pc' = [pc EXCEPT ![c] = "sleeping"]
                   /\ op' = [op EXCEPT ![c] = o]
                   /\ count' = [count EXCEPT ![c] = cnt]
                   /\ wake' = [wake EXCEPT ![c] = now + r.wait]
                   /\ ev' = [call EXCEPT !.kind = "accepted", !.wait = r.wait]
              ELSE /\ Idle(c)
                   /\ ev' = [call EXCEPT !.kind = "returned"]
    /\ mu' = "free"
    /\ drawn' = TRUE
    /\ UNCHANGED <<phase, bucket, now, handed>>

Take(c, cnt) == TakeLocked(c, "take", cnt, INFINITY_DURATION)

TryTake(c, cnt, mw) == TakeLocked(c, "try_take", cnt, mw)

\* sleep(wait_time) is over: take / try_take returns true
Return(c) ==
    /\ pc[c] = "sleeping"
    /\ now >= wake[c]
    /\ Idle(c)
    /\ ev' = [NoEvent EXCEPT !.kind = "woke", !.op = op[c],
                             !.count = count[c], !.ok = TRUE]
    /\ handed' = handed + count[c]
    /\ UNCHANGED <<phase, bucket, available_tokens, last_tick, mu, now, drawn>>

Next ==
    \/ \E cap \in 0..MaxCapacity, q \in 0..MaxQuantum, fi \in 0..MaxInterval :
           New(cap, q, fi)
    \/ Tick
    \/ \E c \in Callers : Lock(c)
    \/ \E c \in Callers : TakeAvailableZero(c)
    \/ \E c \in Callers : Available(c)
    \/ \E c \in Callers, cnt \in 1..MaxCount : TakeAvailable(c, cnt)
    \/ \E c \in Callers, cnt \in 0..MaxCount : Take(c, cnt)
    \/ \E c \in Callers, cnt \in 0..MaxCount, mw \in MaxWaits :
           TryTake(c, cnt, mw)
    \/ \E c \in Callers : Return(c)

Spec == Init /\ [][Next]_vars

\* a caller that holds mu runs its locked part
Decide(c) ==
    \/ Available(c)
    \/ \E cnt \in 1..MaxCount : TakeAvailable(c, cnt)
    \/ \E cnt \in 0..MaxCount : Take(c, cnt)
    \/ \E cnt \in 0..MaxCount, mw \in MaxWaits : TryTake(c, cnt, mw)

\* the clock keeps advancing (however many calls return in between), a thread
\* that holds the lock runs on, and a sleep ends
FairSpec ==
    /\ Spec
    /\ SF_vars(Tick)
    /\ \A c \in Callers : WF_vars(Decide(c)) /\ WF_vars(Return(c))

\* ---- the properties ----

\* whole fill intervals elapsed since construction
WholeIntervals == (now - create_time) \div fill_interval

\* the token count recomputed at this instant
Recomputed ==
    adjust_available_tokens(available_tokens, last_tick, current_tick(now))

\* the step decides a take / try_take (Ok or Err from inner_take)
Decided(e) == e.kind \in {"accepted", "returned"}

\* C1: the tokens handed out by the calls that have returned never exceed
\* quantum * (whole fill intervals elapsed since construction).
C1_RateBound ==
    phase = "ok" => handed <= quantum * WholeIntervals

\* C2: a take(n) with 1 <= n <= capacity is never refused, and every caller
\* that has entered a call (holds the lock or sleeps out its wait) eventually
\* returns from it, whatever debits the other callers have committed.
C2_TakeReturnsTrue ==
    /\ [][(ev'.op = "take" /\ ev'.count \in 1..capacity /\ Decided(ev'))
            => ev'.kind = "accepted"]_vars
    /\ [][\A c \in Callers :
            (pc[c] = "sleeping" /\ pc'[c] # "sleeping")
                => (ev'.kind = "woke" /\ ev'.ok /\ ev'.op = op[c])]_vars
    /\ \A c \in Callers : (pc[c] # "idle") ~> (pc[c] = "idle")

\* a take of n >= 1 tokens returns true after its wait, while the bucket
\* carries debits of other calls as well
C2_Witness ==
    /\ ev.kind = "woke" /\ ev.op = "take" /\ ev.count >= 1
    /\ 0 - available_tokens > ev.count
    /\ now > 0

\* C3: try_take(n, 0) with 1 <= n <= capacity is accepted if and only if the
\* token count recomputed at the call instant is at least n.
C3_TryTakeZeroWait ==
    [][(ev'.op = "try_take" /\ Decided(ev') /\ ev'.max_wait = 0
            /\ ev'.count \in 1..capacity)
         => ((ev'.kind = "accepted") <=> (Recomputed >= ev'.count))]_vars

C5_TakeAvailableResult ==
    [][(ev'.kind = "returned" /\ ev'.op = "take_available" /\ ev'.count >= 1)
         => IF Recomputed < ev'.count
            THEN ev'.got = 0
            ELSE ev'.got = Recomputed /\ available_tokens' = 0]_vars

\* take_available(n) returned more than n: the whole content
C5_Witness ==
    /\ ev.kind = "returned" /\ ev.op = "take_available"
    /\ ev.count >= 1 /\ ev.got > ev.count
    /\ available_tokens = 0

\* C6: the value returned by available() is between 0 and capacity.
C6_AvailableInRange ==
    (ev.kind = "returned" /\ ev.op = "available") => ev.got \in 0..capacity

\* C7: while fewer than one fill interval has elapsed since construction,
\* available() on a bucket without debit returns 0, take_available(n) returns
\* 0 and try_take(n, 0) returns false, for n >= 1.
C7_NothingBeforeFirstInterval ==
    (phase = "ok" /\ now - create_time < fill_interval) =>
        /\ (ev.kind = "returned" /\ ev.op = "available"
                /\ available_tokens >= 0) => ev.got = 0
        /\ (ev.kind = "returned" /\ ev.op = "take_available") => ev.got = 0
        /\ (Decided(ev) /\ ev.op = "try_take" /\ ev.max_wait = 0
                /\ ev.count >= 1) => (ev.kind = "returned" /\ ~ev.ok)

\* C8: take(n) and try_take(n, w) with n > capacity return false in the step
\* that decides them (no sleep) and leave available_tokens and last_tick as
\* they were.
C8_Unsatisfiable ==
    [][(ev'.op \in {"take", "try_take"} /\ ev'.kind # "none"
            /\ ev'.count > capacity)
         => /\ ev'.kind = "returned" /\ ~ev'.ok
            /\ available_tokens' = available_tokens
            /\ last_tick' = last_tick]_vars

\* a take and a try_take of more than capacity returned false
C8_Witness ==
    /\ ev.kind = "returned" /\ ev.op \in {"take", "try_take"}
    /\ ev.count > capacity /\ ~ev.ok
    /\ last_tick < current_tick(now)

\* the call was refused for lack of tokens
Refused(e) ==
    /\ e.kind = "returned"
    /\ \/ e.op = "try_take" /\ ~e.ok /\ e.count \in 1..capacity
       \/ e.op = "take_available" /\ e.count >= 1 /\ e.got = 0

\* C9 as amended: a request refused for lack of tokens leaves the bucket as
\* the recomputation at the call instant leaves it (last_tick the current
\* tick, available_tokens the recomputed count): nothing is debited.
C9_RefusalOnlyRecomputes ==
    [][Refused(ev')
         => /\ last_tick' = current_tick(now)
            /\ available_tokens' = Recomputed]_vars

\* a try_take was refused and the recomputation moved last_tick
C9_Witness ==
    /\ ev.kind = "returned" /\ ev.op = "try_take" /\ ~ev.ok
    /\ ev.count \in 1..capacity
    /\ last_tick > 0

\* C9 as stated: a request refused for lack of tokens leaves available_tokens
\* and last_tick as they were before the call.
C9_Original ==
    [][Refused(ev')
         => /\ available_tokens' = available_tokens
            /\ last_tick' = last_tick]_vars

\* C10: new(capacity, quantum, fill_interval) panics and builds no bucket when
\* capacity = 0, quantum = 0 or fill_interval < 1 second, and otherwise
\* builds the bucket with available_tokens = 0 and last_tick = 0.
C10_Construction ==
    [][\A cap \in 0..MaxCapacity, q \in 0..MaxQuantum, fi \in 0..MaxInterval :
         New(cap, q, fi)
            => IF cap = 0 \/ q = 0 \/ fi < Sec
               THEN /\ phase' = "panicked"
                    /\ capacity' = 0 /\ quantum' = 0 /\ fill_interval' = 0
               ELSE /\ phase' = "ok"
                    /\ capacity' = cap /\ quantum' = q /\ fill_interval' = fi
                    /\ available_tokens' = 0 /\ last_tick' = 0]_vars

\* the bucket has just been built, with the shortest fill_interval accepted
C10_Witness ==
    /\ phase = "ok" /\ fill_interval = Sec
    /\ capacity >= 1 /\ quantum >= 1
    /\ available_tokens = 0 /\ last_tick = 0
    /\ now = create_time /\ ev = NoEvent /\ ~drawn /\ handed = 0
    /\ \A c \in Callers : pc[c] = "idle"

\* ceil(a / b) for a >= 0, b > 0
CeilDiv(a, b) == (a + b - 1) \div b

\* C11: a try_take(n, max_wait) that is accepted was given a wait of at most
\* max_wait, its sleep ends exactly wait after the decision, and no sleeper is
\* still asleep after the end of its sleep: the time slept is at most max_wait.
C11_BoundedWait ==
    /\ (ev.kind = "accepted" /\ ev.op = "try_take")
          => /\ ev.wait <= ev.max_wait
             /\ \E c \in Callers :
                   pc[c] = "sleeping" /\ wake[c] = now + ev.wait
    /\ \A c \in Callers : pc[c] = "sleeping" => now <= wake[c]

\* a try_take with max_wait of one second was accepted with a wait of one
\* second
C11_Witness ==
    /\ ev.kind = "accepted" /\ ev.op = "try_take" /\ ev.count >= 1
    /\ ev.max_wait = Sec /\ ev.wait = Sec

\* C12: take(n), 1 <= n <= capacity, on a bucket still as new() left it and
\* before the first fill interval has elapsed, sleeps until exactly
\* ceil(n / quantum) whole fill intervals have elapsed since construction.
C12_FreshTakeBlocks ==
    [][\A c \in Callers :
         (/\ pc[c] = "cs" /\ ev'.op = "take" /\ Decided(ev')
          /\ ev'.count \in 1..capacity
          /\ ~drawn /\ available_tokens = 0 /\ last_tick = 0
          /\ now - create_time < fill_interval)
            => /\ ev'.kind = "accepted"
               /\ pc'[c] = "sleeping"
               /\ wake'[c] = create_time
                     + fill_interval * CeilDiv(ev'.count, quantum)]_vars

\* C13: at most one caller is in a locked part, the lock is held by exactly
\* the caller that is in its locked part, and a sleeping caller holds no lock:
\* whenever nobody is in a locked part the lock is free for the next caller.
C13_LockDiscipline ==
    /\ Cardinality({c \in Callers : pc[c] = "cs"}) <= 1
    /\ \A c \in Callers : (mu = c) <=> (pc[c] = "cs")
    /\ \A c \in Callers : pc[c] = "sleeping" => mu # c
    /\ (\A c \in Callers : pc[c] # "cs") => mu = "free"

\* a take_available of another caller has locked, decided and returned while a
\* caller is sleeping out a wait that is not over
C13_Witness ==
    /\ \E a \in Callers : pc[a] = "sleeping" /\ wake[a] > now
    /\ ev.kind = "returned" /\ ev.op = "take_available" /\ ev.count >= 1
    /\ mu = "free"

\* C14: take(0) and try_take(0, w) are accepted with zero wait and return
\* true, take_available(0) returns 0, and none of these steps changes
\* available_tokens or last_tick.
C14_ZeroCount ==
    [][(ev'.kind # "none" /\ ev'.count = 0
            /\ ev'.op \in {"take", "try_take", "take_available"})
         => /\ available_tokens' = available_tokens
            /\ last_tick' = last_tick
            /\ ev'.op \in {"take", "try_take"}
                  => \/ ev'.kind = "accepted" /\ ev'.wait = 0
                     \/ ev'.kind = "woke" /\ ev'.ok
            /\ ev'.op = "take_available"
                  => ev'.kind = "returned" /\ ev'.got = 0]_vars

\* a try_take(0, w) has returned true while last_tick is behind the clock
C14_Witness ==
    /\ phase = "ok"
    /\ ev.kind = "woke" /\ ev.op = "try_take" /\ ev.count = 0 /\ ev.ok
    /\ last_tick < current_tick(now)

\* C15: available_tokens never exceeds capacity.
C15_CapacityInvariant ==
    phase = "ok" => available_tokens <= capacity

\* available() has just clamped quantum > capacity accrued tokens to capacity
C15_Witness ==
    /\ phase = "ok" /\ quantum > capacity
    /\ ev.kind = "returned" /\ ev.op = "available"
    /\ available_tokens = capacity /\ last_tick >= 1

\* the step recomputes and takes nothing from a bucket in debt
RecomputesOnly(e) ==
    /\ e.kind = "returned"
    /\ \/ e.op = "available"
       \/ e.op = "take_available" /\ e.count >= 1

\* C16: a recomputation by available or take_available on a bucket with debt
\* d = -available_tokens, made when at least ceil(d / quantum) ticks have
\* elapsed since the last recomputation, leaves available_tokens >= 0.
C16_DebtRepaid ==
    [][(/\ available_tokens < 0
        /\ RecomputesOnly(ev')
        /\ current_tick(now) - last_tick
              >= CeilDiv(0 - available_tokens, quantum))
         => available_tokens' \in 0..capacity]_vars

\* C17: the recomputation of available() with the current tick sets
\* last_tick to the tick, leaves a balance >= capacity unchanged and
\* overwrites every other balance (positive, zero or negative) with
\* min(capacity, (tick - previous last_tick) * quantum).
C17_AdjustPolicy ==
    [][(ev'.kind = "returned" /\ ev'.op = "available")
         => /\ last_tick' = current_tick(now)
            /\ available_tokens'
                  = (IF available_tokens >= capacity
                     THEN available_tokens
                     ELSE Min(capacity,
                              (current_tick(now) - last_tick) * quantum))]_vars

\* C18: last_tick never decreases.
C18_LastTickMonotonic ==
    [][last_tick' >= last_tick]_vars

\* last_tick has moved forward twice
C18_Witness ==
    /\ phase = "ok" /\ last_tick >= 2
    /\ ev.kind \in {"accepted", "returned"}

\* C19: while a caller a sleeps out a wait that is not over, every
\* take_available(m), m >= 1, returns 0, and every take / try_take of m >= 1
\* tokens that is accepted from another caller is given a wait that ends no
\* earlier than the wait of a.
C19_ReservationVisible ==
    [][\A a \in Callers :
         (pc[a] = "sleeping" /\ count[a] >= 1 /\ wake[a] > now)
            => /\ (ev'.kind = "returned" /\ ev'.op = "take_available"
                      /\ ev'.count >= 1) => ev'.got = 0
               /\ \A b \in Callers \ {a} :
                     (pc[b] = "cs" /\ pc'[b] = "sleeping" /\ ev'.count >= 1)
                        => wake'[b] >= wake[a]]_vars

\* two callers sleep, the second was accepted during the wait of the first
\* and its wait ends later
C19_Witness ==
    /\ ev.kind = "accepted" /\ ev.count >= 1
    /\ \E a \in Callers, b \in Callers :
          /\ a # b
          /\ pc[a] = "sleeping" /\ count[a] >= 1 /\ wake[a] > now
          /\ pc[b] = "sleeping" /\ count[b] >= 1 /\ wake[b] > wake[a]
          /\ wake[b] = now + ev.wait

\* C20: current_tick(now) is the number of whole fill intervals elapsed since
\* construction, floor((now - create_time) / fill_interval), the scale on which
\* inner_take places the end of a wait (create_time + fill_interval * end_tick).
C20_TickArithmetic ==
    phase = "ok" => current_tick(now) = WholeIntervals

TypeOK ==
    /\ phase \in {"none", "ok", "panicked"}
    /\ mu \in Callers \cup {"free"}
    /\ now \in 0..MaxTime
    /\ pc \in [Callers -> {"idle", "cs", "sleeping"}]
    /\ ev.kind \in {"none", "accepted", "returned", "woke"}
====
